---- MODULE Spec2Model ----
(***************************************************************************)
(* Model of albumentations/profiling.py: the Profiler session state        *)
(* machine, the timing wrapper installed on the tracked methods, the       *)
(* ProfilerData call-record chain and the aggregation done by              *)
(* ProfilerData._process_results.                                          *)
(*                                                                         *)
(* Objects live in `heap` (a sequence of ProfilerData records); a          *)
(* reference is an index into it and None is 0.  The calls of wrapped      *)
(* methods that have not returned yet are the frames of `stack`.           *)
(***************************************************************************)
EXTENDS Integers, Sequences, FiniteSets, TLC

(***************************************************************************)
(* Bounds of the model.                                                    *)
(***************************************************************************)
MaxCalls == 2      \* wrapped calls entered in one behaviour of Spec
MaxAggCalls == 4   \* wrapped calls entered in one behaviour of AggSpec
MaxDepth == 2      \* wrapped calls in flight at once
MaxSessions == 1   \* successful start() calls in one behaviour
MaxTime == 1       \* largest reading of the clock
MaxReads == 2      \* reads of .results on one root
MaxArgs == 3       \* positional arguments of one construction

(***************************************************************************)
(* Python values.                                                          *)
(***************************************************************************)
None == 0                \* the null reference
NoCls == "None"          \* cls=None of the synthetic root
NaN == 0 - 1             \* float("nan"), no duration is negative
NoneOpt == << >>         \* an Optional that is None
Some(x) == << x >>       \* an Optional that holds x
EmptyDict == << >>       \* {}

PROFILER_RUN_NAME == "Profiling"

ALL_TARGETS_CALL == "__call__"
IMAGE_METHOD == "apply"
MASK_METHOD == "apply_to_mask"
MASKS_METHOD == "apply_to_masks"
BBOX_METHOD == "apply_to_bbox"
BBOXES_METHOD == "apply_to_bboxes"
KEYPOINT_METHOD == "apply_to_keypoint"
KEYPOINTS_METHOD == "apply_to_keypoints"

METHODS_TO_PROFILE ==
    << ALL_TARGETS_CALL, MASK_METHOD, BBOX_METHOD, BBOXES_METHOD,
       KEYPOINT_METHOD, KEYPOINTS_METHOD, MASK_METHOD, MASKS_METHOD >>

(***************************************************************************)
(* The class registry the profiler is built over: the transform classes,   *)
(* the methods each one has, and which of them are composition containers. *)
(***************************************************************************)
get_transforms_with_compose == << "Compose", "Blur", "NoOp" >>

BaseCompose == { "Compose" }

ClassMethods(c) ==
    CASE c = "Compose" -> { ALL_TARGETS_CALL }
      [] c = "Blur"    -> { ALL_TARGETS_CALL, IMAGE_METHOD }
      [] c = "NoOp"    -> { IMAGE_METHOD }
      [] OTHER         -> { }

hasattr(c, m) == m \in ClassMethods(c)

issubclass(c, base) == c \in base

get_class_fullname(c) == c

\* f"{cls_name}.{name}"
FullName(cls_name, name) == cls_name \o "." \o name

Range(s) == { s[i] : i \in DOMAIN s }

\* Profiler._get_functions: the (class, method) pairs that get a wrapper,
\* keyed by the full name the wrapper records.
get_functions ==
    { [key |-> FullName(get_class_fullname(c), m), cls |-> c, func_name |-> m] :
        <<c, m>> \in { p \in Range(get_transforms_with_compose) \X Range(METHODS_TO_PROFILE) :
                         hasattr(p[1], p[2]) } }

\* What an original method may return, and what it may raise.
Values == { "out1", "out2" }
Exceptions == { "ValueError" }

\* The RuntimeError messages (first sentence of each).
MSG_ALREADY_STARTED == "Profiling already started."
MSG_NOT_EMPTY == "Current run data is not empty."
MSG_NOT_STARTED == "Profiler is not started."

(***************************************************************************)
(* ProfilerData.__init__                                                   *)
(***************************************************************************)
ProfilerData(cls, name, dt, profile_data) ==
    [ cls |-> cls, name |-> name, dt |-> dt, profile_data |-> profile_data,
      results |-> NoneOpt,
      total_time |-> NaN, min_time |-> NaN, max_time |-> NaN, avg_time |-> NaN,
      call_count |-> 0 ]

(***************************************************************************)
(* The classes' method tables.  A table maps a class to its own __dict__   *)
(* (a function from method names to functions); a method a class does not  *)
(* define is looked up in its parent.  BasicTransform is the base of the   *)
(* leaf transforms and is not itself in the registry.                      *)
(***************************************************************************)
BASE_TRANSFORM == "BasicTransform"

AllClasses == Range(get_transforms_with_compose) \cup { BASE_TRANSFORM }

Parent(c) == IF c \in { "Blur", "NoOp" } THEN BASE_TRANSFORM ELSE NoCls

\* The method names a class of the model may define.
MethodUniverse == { ALL_TARGETS_CALL, IMAGE_METHOD, MASK_METHOD }

Missing == [ kind |-> "missing" ]
Func(c, m) == [ kind |-> "func", cls |-> c, name |-> m ]

has_attr(tbl, c, m) ==
    \/ m \in DOMAIN tbl[c]
    \/ Parent(c) # NoCls /\ m \in DOMAIN tbl[Parent(c)]

get_attr(tbl, c, m) ==
    IF m \in DOMAIN tbl[c] THEN tbl[c][m]
    ELSE IF Parent(c) # NoCls /\ m \in DOMAIN tbl[Parent(c)] THEN tbl[Parent(c)][m]
    ELSE Missing

\* setattr(cls, name, value) for every (cls, name, value) of `sets`
set_attrs(tbl, sets) ==
    [ c \in DOMAIN tbl |->
        LET mine == { e \in sets : e.cls = c }
            names == DOMAIN tbl[c] \cup { e.func_name : e \in mine }
        IN  [ m \in names |->
                IF \E e \in mine : e.func_name = m
                THEN (CHOOSE e \in mine : e.func_name = m).value
                ELSE tbl[c][m] ] ]

\* Profiler._get_functions on the tables `tbl`: the entries of the dict it
\* returns, res[f"{cls_name}.{name}"] = cls_obj, name, getattr(cls_obj, name)
get_functions_of(tbl) ==
    { [ key |-> FullName(get_class_fullname(p[1]), p[2]), cls |-> p[1], func_name |-> p[2],
        func |-> get_attr(tbl, p[1], p[2]) ] :
        p \in { q \in Range(get_transforms_with_compose) \X Range(METHODS_TO_PROFILE) :
                  has_attr(tbl, q[1], q[2]) } }

\* Profiler._profile_wrapper(cls, name, func)
profile_wrapper(cls, name, func) == [ kind |-> "wrapper", cls |-> cls, name |-> name, func |-> func ]

\* Profiler.__init__, lines 124-125
install(tbl, fs) ==
    set_attrs(tbl, { [ cls |-> e.cls, func_name |-> e.func_name,
                       value |-> profile_wrapper(e.cls, e.key, e.func) ] : e \in fs })

\* Profiler.__del__, lines 129-130
\* Faulty variant: only the methods a class defines itself are put back.
uninstall_own(tbl, fs) ==
    set_attrs(tbl, { [ cls |-> e.cls, func_name |-> e.func_name, value |-> e.func ] :
                       e \in { x \in fs : x.func.cls = x.cls } })

uninstall(tbl, fs) ==
    set_attrs(tbl, { [ cls |-> e.cls, func_name |-> e.func_name, value |-> e.func ] : e \in fs })

\* The tables of the registry above, before any profiler is made.
StdTable ==
    [ c \in AllClasses |-> [ m \in ClassMethods(c) |-> Func(c, m) ] ]

Patched(tbl) ==
    [ phase |-> "patched", before |-> tbl, attrs |-> install(tbl, get_functions_of(tbl)),
      original_functions |-> get_functions_of(tbl) ]

NoVal == [ phase |-> "none" ]

VARIABLES
    heap,           \* the ProfilerData objects created so far
    started,        \* Profiler._started
    t_start,        \* Profiler._t_start
    current_run,    \* Profiler._current_run
    last_run,       \* Profiler._last_run
    stack,          \* frames of wrapped_func that have not returned
    now,            \* time.time()
    ev,             \* the last operation: its name, outcome and the state before it
    agg,            \* the locals of the last walk of _process_results
    reads,          \* outcomes of the reads of .results on the current root
    hist,           \* history: the calls behind the chain, ids, sessions
    patch,          \* the classes' method tables and Profiler._original_functions
    val             \* a schema-validated class: its definition and a construction

vars == << heap, started, t_start, current_run, last_run, stack, now, ev, agg, reads, hist,
           patch, val >>

\* What the operations of a constructed profiler leave alone.
others == << patch, val >>

\* The profiler's fields before an operation, kept in ev.
Snapshot ==
    [ started |-> started, current_run |-> current_run, last_run |-> last_run,
      nheap |-> Len(heap) ]

Event(op, err, ret) == [ op |-> op, err |-> err, ret |-> ret, pre |-> Snapshot ]

NoAgg == [ by_obj |-> EmptyDict, frames |-> << >>, sequence_call |-> << >> ]

\* Profiler.__init__ (the fields; the wrappers are get_functions)
Init ==
    /\ heap = << >>
    /\ started = FALSE
    /\ t_start = 0
    /\ current_run = None
    /\ last_run = None
    /\ stack = << >>
    /\ now = 0
    /\ ev = [ op |-> "init", err |-> "", ret |-> "", pre |->
              [ started |-> FALSE, current_run |-> None, last_run |-> None, nheap |-> 0 ] ]
    /\ agg = NoAgg
    /\ reads = << >>
    /\ hist = [ calls |-> << >>, clean |-> TRUE, last_calls |-> << >>, last_clean |-> TRUE,
                nextId |-> 1, sessions |-> 0, stopped |-> FALSE ]
    /\ patch = Patched(StdTable)
    /\ val = NoVal

\* The clock advances between any two steps.
Tick ==
    /\ now < MaxTime
    /\ now' = now + 1
    /\ UNCHANGED << heap, started, t_start, current_run, last_run, stack, ev, agg, reads, hist >>
    /\ UNCHANGED others

Top == stack[Len(stack)]
Pop == SubSeq(stack, 1, Len(stack) - 1)

\* The body of a `with profiler:` statement that has not been left is a
\* frame too; calls made in it have the caller of the statement as parent.
SCOPE == "with"
ScopeFrame ==
    [ cls |-> SCOPE, name |-> SCOPE, timed |-> FALSE, s |-> 0,
      id |-> IF stack = << >> THEN 0 ELSE Top.id, parent |-> 0 ]
IsScope(fr) == fr.cls = SCOPE

(***************************************************************************)
(* wrapped_func, lines 146-151: the entry of a wrapped method.  The test   *)
(* of _started is made here, once; the frame remembers the branch taken.   *)
(***************************************************************************)
wrapped_func_enter(f) ==
    /\ Len(stack) < MaxDepth
    /\ stack' = Append(stack,
                  [ cls |-> f.cls, name |-> f.key, timed |-> started,
                    s |-> IF started THEN now ELSE 0,
                    id |-> hist.nextId,
                    parent |-> IF stack = << >> THEN 0 ELSE Top.id ])
    /\ hist' = [ hist EXCEPT !.nextId = @ + 1 ]
    /\ ev' = Event("enter", "", "")
    /\ UNCHANGED << heap, started, t_start, current_run, last_run, now, agg, reads >>
    /\ UNCHANGED others

CallEnter ==
    /\ hist.nextId <= MaxCalls
    /\ \E f \in get_functions : wrapped_func_enter(f)

AggCallEnter ==
    /\ hist.nextId <= MaxAggCalls
    /\ \E f \in get_functions : wrapped_func_enter(f)

\* Line 154: the record of the call that `top` is the frame of, made when
\* the chain head is `head` and the clock reads `t`.
\* Faulty variant: the record is not linked to the chain head.
NewRun_detached(top, head, t) == ProfilerData(top.cls, top.name, t - top.s, None)

NewRun(top, head, t) == ProfilerData(top.cls, top.name, t - top.s, head)

\* Lines 147-148: a frame that found _started false returns func's result
\* and does nothing else.
\* Faulty variant: a record is made whether or not the session was started.
Recorded_always(top) == TRUE

Recorded(top) == top.timed

(***************************************************************************)
(* wrapped_func, lines 148 and 152-155: the original method returned res.  *)
(***************************************************************************)
wrapped_func_return(res) ==
    /\ stack # << >>
    /\ ~IsScope(Top)
    /\ stack' = Pop
    /\ ev' = Event(IF Top.timed THEN "timed_return" ELSE "return", "",
                   [ func |-> res, out |-> res ])
    /\ IF Recorded(Top)
       THEN /\ heap' = Append(heap, NewRun(Top, current_run, now))
            /\ current_run' = Len(heap) + 1
            /\ hist' = [ hist EXCEPT !.calls =
                           Append(@, [ id |-> Top.id, parent |-> Top.parent, rec |-> Len(heap) + 1 ]) ]
       ELSE UNCHANGED << heap, current_run, hist >>
    /\ UNCHANGED << started, t_start, last_run, now, agg, reads >>
    /\ UNCHANGED others

CallReturn == \E res \in Values : wrapped_func_return(res)

(***************************************************************************)
(* wrapped_func, lines 148 and 151: the original method raised exc; the    *)
(* wrapper has no handler, so the frame is left at once and the caller     *)
(* sees exc.                                                               *)
(***************************************************************************)
\* Faulty variant: the record is appended in a finally clause.
wrapped_func_raise_finally(exc) ==
    /\ stack # << >>
    /\ ~IsScope(Top)
    /\ stack' = Pop
    /\ ev' = Event(IF Top.timed THEN "timed_raise" ELSE "raise", exc, [ func |-> exc ])
    /\ IF Top.timed
       THEN /\ heap' = Append(heap, NewRun(Top, current_run, now))
            /\ current_run' = Len(heap) + 1
       ELSE UNCHANGED << heap, current_run >>
    /\ UNCHANGED << started, t_start, last_run, now, agg, reads, hist >>
    /\ UNCHANGED others

wrapped_func_raise(exc) ==
    /\ stack # << >>
    /\ ~IsScope(Top)
    /\ stack' = Pop
    /\ ev' = Event(IF Top.timed THEN "timed_raise" ELSE "raise", exc, [ func |-> exc ])
    /\ UNCHANGED << heap, started, t_start, current_run, last_run, now, agg, reads, hist >>
    /\ UNCHANGED others

CallRaise == \E exc \in Exceptions : wrapped_func_raise(exc)

(***************************************************************************)
(* Profiler.start, lines 160-163: the RuntimeError raised, "" for none.    *)
(***************************************************************************)
\* Faulty variant: the leftover chain is tested before _started.
start_error_swapped ==
    IF current_run # None THEN MSG_NOT_EMPTY
    ELSE IF started THEN MSG_ALREADY_STARTED
    ELSE ""

start_error ==
    IF started THEN MSG_ALREADY_STARTED
    ELSE IF current_run # None THEN MSG_NOT_EMPTY
    ELSE ""

(***************************************************************************)
(* Profiler.start                                                          *)
(***************************************************************************)
start ==
    /\ start_error = "" => hist.sessions < MaxSessions
    /\ IF start_error # ""
       THEN /\ ev' = Event("start", start_error, "")
            /\ UNCHANGED << started, t_start, hist >>
       ELSE /\ started' = TRUE
            /\ t_start' = now
            /\ hist' = [ hist EXCEPT !.sessions = @ + 1, !.clean = (stack = << >>) ]
            /\ ev' = Event("start", "", "")
    /\ UNCHANGED << heap, current_run, last_run, stack, now, agg, reads >>
    /\ UNCHANGED others

(***************************************************************************)
(* Profiler.stop, lines 168-169: the RuntimeError raised, "" for none.     *)
(***************************************************************************)
\* Faulty variant: stop() without the test of _started.
stop_error_unchecked == ""

stop_error == IF ~started THEN MSG_NOT_STARTED ELSE ""

\* Lines 170 and 173-175: the synthetic root put over the chain `head`.
\* Faulty variant: the root is not put over the chain.
StopRoot_detached(head, t) == ProfilerData(NoCls, PROFILER_RUN_NAME, t - t_start, None)

StopRoot(head, t) == ProfilerData(NoCls, PROFILER_RUN_NAME, t - t_start, head)

(***************************************************************************)
(* Profiler.stop                                                           *)
(***************************************************************************)
stop ==
    /\ IF stop_error # ""
       THEN /\ ev' = Event("stop", stop_error, "")
            /\ UNCHANGED << heap, started, current_run, last_run, reads, hist >>
       ELSE /\ heap' = Append(heap, StopRoot(current_run, now))
            /\ last_run' = Len(heap) + 1
            /\ current_run' = None
            /\ started' = FALSE
            /\ reads' = << >>
            /\ hist' = [ hist EXCEPT !.last_calls = hist.calls, !.calls = << >>,
                                     !.last_clean = (hist.clean /\ stack = << >>),
                                     !.stopped = TRUE ]
            /\ ev' = Event("stop", "", "")
    /\ UNCHANGED << t_start, stack, now, agg >>
    /\ UNCHANGED others

(***************************************************************************)
(* Profiler.__enter__: start(), then the body of the with statement is     *)
(* entered; when start() raises the body is not entered.                   *)
(***************************************************************************)
Profiler_enter ==
    /\ Len(stack) < MaxDepth
    /\ start_error = "" => hist.sessions < MaxSessions
    /\ IF start_error # ""
       THEN /\ ev' = Event("__enter__", start_error, "")
            /\ UNCHANGED << started, t_start, hist, stack >>
       ELSE /\ started' = TRUE
            /\ t_start' = now
            /\ hist' = [ hist EXCEPT !.sessions = @ + 1, !.clean = (stack = << >>) ]
            /\ stack' = Append(stack, ScopeFrame)
            /\ ev' = Event("__enter__", "", "self")
    /\ UNCHANGED << heap, current_run, last_run, now, agg, reads >>
    /\ UNCHANGED others

(***************************************************************************)
(* Profiler.__exit__: the body is left, normally (exc = "") or by the      *)
(* exception exc; stop() is called and None is returned, so exc goes on to *)
(* the caller unless stop() itself raises.                                 *)
(***************************************************************************)
\* Faulty variant: stop() is called only when the body ended normally.
Profiler_exit_on_success(exc) ==
    /\ stack # << >>
    /\ IsScope(Top)
    /\ stack' = Pop
    /\ IF stop_error # "" \/ exc # ""
       THEN /\ ev' = Event("__exit__", IF exc # "" THEN exc ELSE stop_error, [ body |-> exc ])
            /\ UNCHANGED << heap, started, current_run, last_run, reads, hist >>
       ELSE /\ heap' = Append(heap, StopRoot(current_run, now))
            /\ last_run' = Len(heap) + 1
            /\ current_run' = None
            /\ started' = FALSE
            /\ reads' = << >>
            /\ hist' = [ hist EXCEPT !.last_calls = hist.calls, !.calls = << >>,
                                     !.last_clean = (hist.clean /\ Pop = << >>),
                                     !.stopped = TRUE ]
            /\ ev' = Event("__exit__", exc, [ body |-> exc ])
    /\ UNCHANGED << t_start, now, agg >>
    /\ UNCHANGED others

Profiler_exit(exc) ==
    /\ stack # << >>
    /\ IsScope(Top)
    /\ stack' = Pop
    /\ IF stop_error # ""
       THEN /\ ev' = Event("__exit__", stop_error, [ body |-> exc ])
            /\ UNCHANGED << heap, started, current_run, last_run, reads, hist >>
       ELSE /\ heap' = Append(heap, StopRoot(current_run, now))
            /\ last_run' = Len(heap) + 1
            /\ current_run' = None
            /\ started' = FALSE
            /\ reads' = << >>
            /\ hist' = [ hist EXCEPT !.last_calls = hist.calls, !.calls = << >>,
                                     !.last_clean = (hist.clean /\ Pop = << >>),
                                     !.stopped = TRUE ]
            /\ ev' = Event("__exit__", exc, [ body |-> exc ])
    /\ UNCHANGED << t_start, now, agg >>
    /\ UNCHANGED others

ScopeEnter == Profiler_enter

ScopeExit == \E exc \in Exceptions \cup { "" } : Profiler_exit(exc)

(***************************************************************************)
(* Profiler.get_profile_results: a read of _last_run.                      *)
(***************************************************************************)
get_profile_results == last_run

(***************************************************************************)
(* ProfilerData._process_results, lines 86-111.  The dictionaries by_obj   *)
(* and by_stack map a (cls, name) key to the list of records added under   *)
(* it; `frames` lists by_stack and then every {} made at line 106, in the  *)
(* order they are made.                                                    *)
(***************************************************************************)
add_func(h, data, result) ==
    LET k == << h[data].cls, h[data].name >>
    IN  IF k \in DOMAIN result
        THEN [ result EXCEPT ![k] = Append(@, data) ]
        ELSE result @@ (k :> << data >>)

RECURSIVE process(_, _, _, _)
process(h, data, stack_data, acc) ==
    IF data = None
    THEN [ acc EXCEPT !.raised = "AttributeError" ]       \* None.profile_data
    ELSE IF h[data].profile_data = None
    THEN acc
    ELSE IF h[data].cls = NoCls
    THEN [ acc EXCEPT !.raised = "TypeError",           \* issubclass(None, ...)
                      !.by_obj = add_func(h, data, @),
                      !.sequence_call = Append(@, data) ]
    ELSE LET composite == issubclass(h[data].cls, BaseCompose)
             a1 == [ acc EXCEPT !.by_obj = add_func(h, data, @),
                                !.sequence_call = Append(@, data) ]
             a2 == IF composite THEN [ a1 EXCEPT !.frames = Append(@, EmptyDict) ] ELSE a1
             cur_stack_data == IF composite THEN Len(a2.frames) ELSE stack_data
             a3 == [ a2 EXCEPT !.frames[stack_data] = add_func(h, data, @) ]
         IN  process(h, h[data].profile_data, cur_stack_data, a3)

\* Lines 76-111 on the record at `self`: the record after the call, the
\* locals of the walk, whether the chain was walked, and what was raised.
process_results(h, self) ==
    IF h[self].results # NoneOpt
    THEN [ rec |-> h[self], walked |-> FALSE, raised |-> "", locals |-> NoAgg ]
    ELSE LET w == process(h, h[self].profile_data, 1,
                          [ by_obj |-> EmptyDict, frames |-> << EmptyDict >>,
                            sequence_call |-> << >>, raised |-> "" ])
         IN  [ rec |-> [ h[self] EXCEPT !.results = Some(EmptyDict),
                                        !.total_time = h[self].dt,
                                        !.min_time = h[self].dt,
                                        !.avg_time = h[self].dt,
                                        !.max_time = h[self].dt ],
               walked |-> TRUE,
               raised |-> w.raised,
               locals |-> [ by_obj |-> w.by_obj, frames |-> w.frames,
                            sequence_call |-> w.sequence_call ] ]

\* `self._results or {}`
OrEmpty(opt) == IF opt = NoneOpt \/ opt[1] = EmptyDict THEN EmptyDict ELSE opt[1]

(***************************************************************************)
(* ProfilerData.results, read on the root get_profile_results() returns.   *)
(***************************************************************************)
results ==
    /\ get_profile_results # None
    /\ Len(reads) < MaxReads
    /\ LET self == get_profile_results
           r == process_results(heap, self)
       IN  /\ heap' = [ heap EXCEPT ![self] = r.rec ]
           /\ agg' = IF r.walked THEN r.locals ELSE agg
           /\ reads' = Append(reads,
                         [ raised |-> r.raised, walked |-> r.walked,
                           value |-> IF r.raised = "" THEN OrEmpty(r.rec.results) ELSE EmptyDict ])
           /\ ev' = Event("results", r.raised, "")
    /\ UNCHANGED << started, t_start, current_run, last_run, stack, now, hist >>
    /\ UNCHANGED others

(***************************************************************************)
(* core/validation.py: ValidatedTransformMeta.  A class definition is its  *)
(* namespace dct: what it holds under "InitSchema" and under "__init__"    *)
(* (None, or the constructor's signature after self).  Values are tagged   *)
(* with their type so that the schema's coercion is visible.               *)
(***************************************************************************)
IntVal(n) == [ type |-> "int", v |-> n ]
StrVal(n) == [ type |-> "str", v |-> n ]      \* the text of the number n

RawValues == { IntVal(5), IntVal(20), IntVal(0 - 1), StrVal(5) }

\* Parameter.empty is NoneOpt
Param(n, d) == [ name |-> n, default |-> d ]

Signatures ==
    { << Param("a", NoneOpt), Param("b", Some(IntVal(10))) >>,
      << Param("a", NoneOpt), Param("b", NoneOpt) >> }

\* what the namespace holds under "InitSchema": nothing, a BaseModel
\* subclass, or a class that is not a BaseModel
SchemaKinds == { "absent", "BaseModel", "plain" }

ClassDefs ==
    [ InitSchema : SchemaKinds, init : { NoneOpt } \cup { Some(sig) : sig \in Signatures } ]

KwNames == { "a", "b", "z" }

ArgLists == UNION { [ 1..n -> RawValues ] : n \in 0..MaxArgs }

KwDicts == UNION { [ S -> RawValues ] : S \in SUBSET KwNames }

Names(sig) == [ i \in 1..Len(sig) |-> sig[i].name ]

Min(a, b) == IF a <= b THEN a ELSE b

\* dict(zip(param_names, args))
dict_zip(param_names, args) ==
    [ n \in { param_names[i] : i \in 1..Min(Len(param_names), Len(args)) } |->
        args[CHOOSE i \in 1..Len(param_names) : param_names[i] = n] ]

\* d.update(e)
update(d, e) ==
    [ n \in DOMAIN d \cup DOMAIN e |-> IF n \in DOMAIN e THEN e[n] ELSE d[n] ]

\* lines 21-23
fill_defaults(sig, d) ==
    [ n \in DOMAIN d \cup { sig[i].name : i \in { j \in 1..Len(sig) : sig[j].default # NoneOpt } } |->
        IF n \in DOMAIN d THEN d[n]
        ELSE (sig[CHOOSE i \in 1..Len(sig) : sig[i].name = n].default)[1] ]

\* lines 16-23: full_kwargs as it stands before the schema is called
\* Faulty variant: a positional argument wins over a keyword of the same name.
bind_positional_wins(sig, args, kwargs) ==
    fill_defaults(sig, update(kwargs, dict_zip(Names(sig), args)))

bind(sig, args, kwargs) ==
    fill_defaults(sig, update(dict_zip(Names(sig), args), kwargs))

\* The schema of the example: fields a: int and b: int >= 0, both required;
\* text of a number is coerced to the number; names that are not fields are ignored.
SchemaFields == { "a", "b" }

coerce(x) == IntVal(x.v)

InitSchema(full_kwargs) ==
    IF SchemaFields \subseteq DOMAIN full_kwargs /\ coerce(full_kwargs["b"]).v >= 0
    THEN [ err |-> "", given |-> full_kwargs,
           fields |-> [ n \in SchemaFields |-> coerce(full_kwargs[n]) ] ]
    ELSE [ err |-> "ValidationError", given |-> full_kwargs, fields |-> EmptyDict ]

\* config.dict()
\* Faulty variant: the mapping the schema was given, not its fields.
config_dict_given(config) == config.given

config_dict(config) == config.fields

\* Python's own binding of a call to a signature (after self).
py_bind_error(sig, args, kwargs) ==
    IF \/ Len(args) > Len(sig)
       \/ \E n \in DOMAIN kwargs : \A i \in 1..Len(sig) : sig[i].name # n
       \/ \E i \in 1..Min(Len(args), Len(sig)) : sig[i].name \in DOMAIN kwargs
       \/ \E i \in 1..Len(sig) : /\ i > Len(args)
                                 /\ sig[i].name \notin DOMAIN kwargs
                                 /\ sig[i].default = NoneOpt
    THEN "TypeError" ELSE ""

Invocation(args, kwargs) == [ args |-> args, kwargs |-> kwargs ]

\* original_init(self, *args, **kwargs): the call is attempted, and the body
\* runs if the arguments bind.
original_init(sig, args, kwargs) ==
    [ err |-> py_bind_error(sig, args, kwargs), trace |-> << "init" >>,
      init_calls |-> << Invocation(args, kwargs) >>, bound |-> NoneOpt ]

\* lines 15-29
\* Faulty variant: the constructor runs on the bound arguments, then the schema.
custom_init_init_first(sig, args, kwargs) ==
    LET full_kwargs == bind(sig, args, kwargs)
        config == InitSchema(full_kwargs)
    IN  [ err |-> IF py_bind_error(sig, << >>, full_kwargs) # ""
                  THEN py_bind_error(sig, << >>, full_kwargs) ELSE config.err,
          trace |-> << "init", "schema" >>,
          init_calls |-> << Invocation(<< >>, full_kwargs) >>, bound |-> Some(full_kwargs) ]

custom_init(sig, args, kwargs) ==
    LET full_kwargs == bind(sig, args, kwargs)
        config == InitSchema(full_kwargs)
        validated_kwargs == config_dict(config)
    IN  IF config.err # ""
        THEN [ err |-> config.err, trace |-> << "schema" >>, init_calls |-> << >>,
               bound |-> Some(full_kwargs) ]
        ELSE [ err |-> original_init(sig, << >>, validated_kwargs).err,
               trace |-> << "schema", "init" >>,
               init_calls |-> << Invocation(<< >>, validated_kwargs) >>,
               bound |-> Some(full_kwargs) ]

\* ValidatedTransformMeta.__new__(cls, name, bases, dct)
\* Faulty variant: a missing constructor is only noticed when the class is called.
meta_new_deferred(dct) ==
    [ phase |-> "defined", dct |-> dct, def_err |-> "",
      init |-> IF dct.InitSchema = "BaseModel" THEN "custom_init"
               ELSE IF dct.init # NoneOpt THEN "original" ELSE "object" ]

meta_new(dct) ==
    IF dct.InitSchema = "BaseModel"
    THEN IF dct.init = NoneOpt
         THEN [ phase |-> "rejected", dct |-> dct, def_err |-> "ValueError", init |-> "none" ]
         ELSE [ phase |-> "defined", dct |-> dct, def_err |-> "", init |-> "custom_init" ]
    ELSE [ phase |-> "defined", dct |-> dct, def_err |-> "",
           init |-> IF dct.init # NoneOpt THEN "original" ELSE "object" ]

\* a class statement with metaclass ValidatedTransformMeta
ValidatedTransformMeta_new ==
    /\ val.phase = "none"
    /\ \E dct \in ClassDefs : val' = meta_new(dct)
    /\ UNCHANGED << heap, started, t_start, current_run, last_run, stack, now, ev, agg, reads,
                    hist, patch >>

\* Cls(*args, **kwargs): type.__call__ runs the class's __init__
construct(cls, args, kwargs) ==
    IF cls.init = "custom_init" THEN custom_init(cls.dct.init[1], args, kwargs)
    ELSE IF cls.init = "original" THEN original_init(cls.dct.init[1], args, kwargs)
    ELSE original_init(<< >>, args, kwargs)

Cls_call ==
    /\ val.phase = "defined"
    /\ \E args \in ArgLists, kwargs \in KwDicts :
         LET out == construct(val, args, kwargs)
         IN  val' = [ phase |-> "constructed", dct |-> val.dct, def_err |-> val.def_err,
                      init |-> val.init, args |-> args, kwargs |-> kwargs, err |-> out.err,
                      trace |-> out.trace, init_calls |-> out.init_calls,
                      bound |-> out.bound, instance |-> (out.err = "") ]
    /\ UNCHANGED << heap, started, t_start, current_run, last_run, stack, now, ev, agg, reads,
                    hist, patch >>

ValNext ==
    \/ ValidatedTransformMeta_new
    \/ Cls_call

ValSpec == Init /\ [][ValNext]_vars

(***************************************************************************)
(* Profiler.__init__ and Profiler.__del__ over tables that any classes     *)
(* may come with.                                                          *)
(***************************************************************************)
Tables ==
    { t \in [ AllClasses -> SUBSET MethodUniverse ] : TRUE }

PatchInit ==
    /\ heap = << >>
    /\ started = FALSE
    /\ t_start = 0
    /\ current_run = None
    /\ last_run = None
    /\ stack = << >>
    /\ now = 0
    /\ ev = [ op |-> "none", err |-> "", ret |-> "", pre |->
              [ started |-> FALSE, current_run |-> None, last_run |-> None, nheap |-> 0 ] ]
    /\ agg = NoAgg
    /\ reads = << >>
    /\ hist = [ calls |-> << >>, clean |-> TRUE, last_calls |-> << >>, last_clean |-> TRUE,
                nextId |-> 1, sessions |-> 0, stopped |-> FALSE ]
    /\ \E t \in Tables :
         LET tbl == [ c \in AllClasses |-> [ m \in t[c] |-> Func(c, m) ] ]
         IN  patch = [ phase |-> "unpatched", before |-> tbl, attrs |-> tbl,
                       original_functions |-> { } ]
    /\ val = NoVal

Profiler_init ==
    /\ patch.phase = "unpatched"
    /\ patch' = Patched(patch.attrs)
    /\ current_run' = None
    /\ last_run' = None
    /\ started' = FALSE
    /\ t_start' = 0
    /\ ev' = Event("__init__", "", "")
    /\ UNCHANGED << heap, stack, now, agg, reads, hist, val >>

Profiler_del ==
    /\ patch.phase = "patched"
    /\ patch' = [ patch EXCEPT !.phase = "deleted",
                               !.attrs = uninstall(patch.attrs, patch.original_functions) ]
    /\ ev' = Event("__del__", "", "")
    /\ UNCHANGED << heap, started, t_start, current_run, last_run, stack, now, agg, reads,
                    hist, val >>

PatchNext ==
    \/ Profiler_init
    \/ Profiler_del

PatchSpec == PatchInit /\ [][PatchNext]_vars

(***************************************************************************)
(* Spec: the session state machine and the wrapper, under a clock.         *)
(***************************************************************************)
Next ==
    \/ Tick
    \/ CallEnter
    \/ CallReturn
    \/ CallRaise
    \/ start
    \/ stop

Spec == Init /\ [][Next]_vars

(***************************************************************************)
(* AggSpec: sessions of up to MaxAggCalls calls and the reads of .results  *)
(* on their root.  The clock stands still: the walk reads no duration.     *)
(***************************************************************************)
AggNext ==
    \/ AggCallEnter
    \/ CallReturn
    \/ start
    \/ stop
    \/ results

AggSpec == Init /\ [][AggNext]_vars

(***************************************************************************)
(* ScopeSpec: a program that delimits its sessions with the with statement *)
(* only; tracked calls are made inside and outside the bodies.             *)
(***************************************************************************)
ScopeNext ==
    \/ Tick
    \/ CallEnter
    \/ CallReturn
    \/ CallRaise
    \/ ScopeEnter
    \/ ScopeExit

ScopeSpec == Init /\ [][ScopeNext]_vars

(***************************************************************************)
(* Helpers of the properties.                                              *)
(***************************************************************************)
RECURSIVE Chain(_, _)
Chain(h, p) == IF p = None THEN << >> ELSE << p >> \o Chain(h, h[p].profile_data)

Reverse(sq) == [ i \in 1..Len(sq) |-> sq[Len(sq) + 1 - i] ]

Recs(calls) == [ i \in 1..Len(calls) |-> calls[i].rec ]

Pos(sq, x) == CHOOSE i \in DOMAIN sq : sq[i] = x

\* The profiler's fields are as they were before the last operation.
ProfilerUntouched ==
    /\ started = ev.pre.started
    /\ current_run = ev.pre.current_run
    /\ last_run = ev.pre.last_run
    /\ Len(heap) = ev.pre.nheap

\* The records a frame of the per-frame grouping holds.
FrameRecs(fr) == UNION { Range(fr[k]) : k \in DOMAIN fr }

\* The walk of the first read of .results on the current root is in agg.
WalkDone == Len(reads) >= 1

(***************************************************************************)
(* C1: a return of a tracked call that the wrapper timed (it found the     *)
(* session started) creates exactly one record, whose predecessor is the   *)
(* chain head before the return, and the head becomes that record; at any  *)
(* time the chain from the head lists the returned calls behind it, last   *)
(* completed first, and the record of a call comes before the records of   *)
(* the calls nested in it.                                                 *)
(***************************************************************************)
C1_ChainOrder ==
    /\ ev.op = "timed_return" =>
         /\ Len(heap) = ev.pre.nheap + 1
         /\ heap[Len(heap)].profile_data = ev.pre.current_run
         /\ current_run = Len(heap)
    /\ LET ch == Chain(heap, current_run)
       IN  /\ ch = Reverse(Recs(hist.calls))
           /\ \A i, j \in DOMAIN hist.calls :
                hist.calls[j].parent = hist.calls[i].id =>
                  Pos(ch, hist.calls[i].rec) < Pos(ch, hist.calls[j].rec)

C1_Witness ==
    /\ ev.op = "timed_return"
    /\ started
    /\ Len(hist.calls) >= 2
    /\ \E i, j \in DOMAIN hist.calls : hist.calls[j].parent = hist.calls[i].id

(***************************************************************************)
(* C2: after a session of N >= 1 sequential, non-nested tracked calls, the *)
(* flat grouping by_obj of the walk holds, for every tracked (class,       *)
(* method) pair, as many records as calls were made to that pair.          *)
(***************************************************************************)
SequentialSession ==
    /\ hist.last_clean
    /\ Len(hist.last_calls) >= 1
    /\ \A i \in DOMAIN hist.last_calls : hist.last_calls[i].parent = 0

CallsTo(f) ==
    Cardinality({ i \in DOMAIN hist.last_calls :
                    /\ heap[hist.last_calls[i].rec].cls = f.cls
                    /\ heap[hist.last_calls[i].rec].name = f.key })

Grouped(dict, f) ==
    IF << f.cls, f.key >> \in DOMAIN dict THEN Len(dict[<< f.cls, f.key >>]) ELSE 0

C2_FlatGroupingCounts ==
    (WalkDone /\ SequentialSession) =>
        \A f \in get_functions : Grouped(agg.by_obj, f) = CallsTo(f)

(***************************************************************************)
(* C3: a tracked call made while no session is started changes none of     *)
(* started, the chain head, the last completed chain and the set of        *)
(* records, neither when it is entered nor when it returns, and it returns *)
(* what the original method returned.                                      *)
(***************************************************************************)
C3_PassThrough ==
    /\ (ev.op = "enter" /\ ~ev.pre.started) => ProfilerUntouched
    /\ ev.op = "return" => (ProfilerUntouched /\ ev.ret.out = ev.ret.func)

C3_Witness ==
    /\ ev.op = "return"
    /\ ~started
    /\ ev.ret.out = "out2"
    /\ hist.stopped
    /\ last_run # None

(***************************************************************************)
(* C4: start() on a started session raises "Profiling already started."    *)
(* and changes nothing, however many tracked calls were made since the     *)
(* session started.                                                        *)
(***************************************************************************)
C4_DoubleStart ==
    (ev.op = "start" /\ ev.pre.started) =>
        (ev.err = MSG_ALREADY_STARTED /\ ProfilerUntouched)

C4_Witness ==
    /\ ev.op = "start"
    /\ ev.pre.started
    /\ ev.err = MSG_ALREADY_STARTED
    /\ Len(hist.calls) = 2

(***************************************************************************)
(* C5: stop() on a session that is not started raises "Profiler is not     *)
(* started." and leaves the last completed chain as it was.                *)
(***************************************************************************)
C5_StopNotStarted ==
    (ev.op = "stop" /\ ~ev.pre.started) =>
        (ev.err = MSG_NOT_STARTED /\ ProfilerUntouched)

C5_Witness ==
    /\ ev.op = "stop"
    /\ ~ev.pre.started
    /\ ev.err = MSG_NOT_STARTED
    /\ hist.stopped
    /\ last_run # None

(***************************************************************************)
(* C6: after a successful stop() get_profile_results() is a record made by *)
(* that stop(), with no class and with the chain head of before the stop() *)
(* as predecessor; the chain head is None and the session is not started.  *)
(* As long as no stop() has succeeded get_profile_results() is None.       *)
(***************************************************************************)
C6_StopPublishesRoot ==
    /\ (ev.op = "stop" /\ ev.err = "") =>
         /\ Len(heap) = ev.pre.nheap + 1
         /\ get_profile_results = Len(heap)
         /\ heap[get_profile_results].cls = NoCls
         /\ heap[get_profile_results].profile_data = ev.pre.current_run
         /\ current_run = None
         /\ ~started
    /\ ~hist.stopped => get_profile_results = None

C6_Witness ==
    /\ ev.op = "stop"
    /\ ev.err = ""
    /\ ev.pre.current_run # None
    /\ Len(Chain(heap, get_profile_results)) = 3

(***************************************************************************)
(* C7: when the original method raises in a call the wrapper timed, the    *)
(* caller sees that exception and no record is made: the chain head and    *)
(* the set of records are those of before.                                 *)
(***************************************************************************)
C7_RaiseAppendsNothing ==
    ev.op = "timed_raise" =>
        /\ ev.err = ev.ret.func
        /\ ev.err \in Exceptions
        /\ current_run = ev.pre.current_run
        /\ Len(heap) = ev.pre.nheap

C7_Witness ==
    /\ ev.op = "timed_raise"
    /\ started
    /\ current_run # None

(***************************************************************************)
(* C8: the walk opens one new frame per composite record it visits, and no *)
(* frame holds both a record of a call nested in a composite call and a    *)
(* record of a sibling of that composite call (a call made in the scope    *)
(* the composite call was made in).                                        *)
(***************************************************************************)
CompositeCalls ==
    { i \in DOMAIN hist.last_calls :
        issubclass(heap[hist.last_calls[i].rec].cls, BaseCompose) }

C8_ChildrenNotWithSiblings ==
    (WalkDone /\ reads[1].raised = "") =>
        /\ Len(agg.frames) =
             1 + Cardinality({ i \in DOMAIN agg.sequence_call :
                                 issubclass(heap[agg.sequence_call[i]].cls, BaseCompose) })
        /\ \A c \in CompositeCalls : \A k, sb \in DOMAIN hist.last_calls :
             ( /\ hist.last_calls[k].parent = hist.last_calls[c].id
               /\ hist.last_calls[sb].parent = hist.last_calls[c].parent
               /\ sb # c )
             => ~ \E fr \in DOMAIN agg.frames :
                    /\ hist.last_calls[k].rec \in FrameRecs(agg.frames[fr])
                    /\ hist.last_calls[sb].rec \in FrameRecs(agg.frames[fr])

(***************************************************************************)
(* C9: on the root of a session with no tracked call, reading .results     *)
(* raises nothing and gives empty groupings.                               *)
(***************************************************************************)
C9_EmptySessionReads ==
    (WalkDone /\ Len(hist.last_calls) = 0) =>
        /\ reads[1].raised = ""
        /\ reads[1].value = EmptyDict
        /\ agg.by_obj = EmptyDict

(***************************************************************************)
(* C10: the second read of .results on a root has the outcome of the first *)
(* (the same value, or the same exception) and does not walk the chain.    *)
(***************************************************************************)
C10_ReadsIdempotent ==
    Len(reads) >= 2 =>
        /\ reads[2].raised = reads[1].raised
        /\ reads[2].value = reads[1].value
        /\ ~reads[2].walked

(***************************************************************************)
(* C12: a record is appended only while the session is started, also by a  *)
(* call that began in a session and returns after stop(); so whenever the  *)
(* session is not started the chain head is None.                          *)
(***************************************************************************)
C12_RecordsOnlyWhileStarted ==
    /\ Len(heap) > ev.pre.nheap /\ ev.op = "timed_return" => ev.pre.started
    /\ ~started => current_run = None

(***************************************************************************)
(* C20: in every reachable state start() or stop() succeeds: the state in  *)
(* which start() raises for the leftover chain and stop() raises for the   *)
(* session not being started is never reached.                             *)
(***************************************************************************)
C20_NeverStuck ==
    /\ start_error = "" \/ stop_error = ""
    /\ ~(start_error = MSG_NOT_EMPTY /\ stop_error = MSG_NOT_STARTED)

(***************************************************************************)
(* C19: entering the with statement does what start() does, and leaving    *)
(* it, normally or by an exception of the body, does what stop() does:     *)
(* afterwards the session is not started, the chain head is None and the   *)
(* records made in the body are the chain under the root that              *)
(* get_profile_results() returns; an exception of the body goes on to the  *)
(* caller.                                                                 *)
(***************************************************************************)
C19_ScopedSession ==
    /\ ev.op = "__enter__" =>
         IF ev.pre.started THEN ev.err = MSG_ALREADY_STARTED /\ ProfilerUntouched
         ELSE IF ev.pre.current_run # None THEN ev.err = MSG_NOT_EMPTY /\ ProfilerUntouched
         ELSE ev.err = "" /\ started /\ current_run = None /\ Len(heap) = ev.pre.nheap
    /\ ev.op = "__exit__" =>
         /\ ~started
         /\ current_run = None
         /\ Len(heap) = ev.pre.nheap + 1
         /\ get_profile_results = Len(heap)
         /\ heap[get_profile_results].cls = NoCls
         /\ heap[get_profile_results].profile_data = ev.pre.current_run
         /\ Chain(heap, ev.pre.current_run) = Reverse(Recs(hist.last_calls))
         /\ ev.err = ev.ret.body

C19_Witness ==
    /\ ev.op = "__exit__"
    /\ ev.ret.body \in Exceptions
    /\ Len(hist.last_calls) >= 1
    /\ ~started

(***************************************************************************)
(* C11: after construction and then teardown, every method name resolves   *)
(* on every class to the function it resolved to before construction, and  *)
(* no wrapper is reachable through a class.                                *)
(***************************************************************************)
Replaced == { << e.cls, e.func_name >> : e \in patch.original_functions }

C11_TeardownRestores ==
    patch.phase = "deleted" =>
        /\ \A p \in Replaced :
             get_attr(patch.attrs, p[1], p[2]) = get_attr(patch.before, p[1], p[2])
        /\ \A c \in AllClasses : \A m \in MethodUniverse :
             get_attr(patch.attrs, c, m).kind # "wrapper"

C11_Witness ==
    /\ patch.phase = "deleted"
    /\ Cardinality(Replaced) >= 3
    /\ \E e \in patch.original_functions : e.func.cls # e.cls

(***************************************************************************)
(* C13: the wrapped (class, method) pairs are exactly the pairs of a       *)
(* registry class and a tracked name it exposes, the tracked names being   *)
(* __call__ and the apply operations for image, mask(s), box(es) and       *)
(* keypoint(s); a class that exposes none of them gets no wrapper.         *)
(***************************************************************************)
TrackedNames ==
    { ALL_TARGETS_CALL, IMAGE_METHOD, MASK_METHOD, MASKS_METHOD, BBOX_METHOD, BBOXES_METHOD,
      KEYPOINT_METHOD, KEYPOINTS_METHOD }

C13_InstrumentedPairs ==
    patch.phase = "patched" =>
        /\ Replaced = { p \in Range(get_transforms_with_compose) \X TrackedNames :
                          has_attr(patch.before, p[1], p[2]) }
        /\ \A c \in AllClasses : \A m \in MethodUniverse :
             get_attr(patch.attrs, c, m).kind = "wrapper" <=> << c, m >> \in Replaced

(***************************************************************************)
(* Constructions of a class whose constructor the metaclass replaced.      *)
(***************************************************************************)
Validated == val.phase = "constructed" /\ val.init = "custom_init"

Sig == val.dct.init[1]

Declared == { Sig[i].name : i \in 1..Len(Sig) }

PosOf(n) == CHOOSE i \in 1..Len(Sig) : Sig[i].name = n

(***************************************************************************)
(* C14: for a call with no more positional arguments than declared         *)
(* parameters, the mapping handed to the schema holds, for each name: the  *)
(* caller's keyword if given, else the positional argument at the name's   *)
(* position if given, else the declared default if there is one; a name    *)
(* with none of the three is absent.  So for (a, b=10): Cls(5) binds       *)
(* {a:5, b:10}, Cls(5, b=20) binds {a:5, b:20}, Cls(a=5) binds {a:5, b:10}.*)
(***************************************************************************)
C14_BoundMapping ==
    Validated /\ Len(val.args) <= Len(Sig) =>
        /\ val.bound # NoneOpt
        /\ \A n \in Declared \cup KwNames :
             LET full == val.bound[1]
             IN  IF n \in DOMAIN val.kwargs THEN n \in DOMAIN full /\ full[n] = val.kwargs[n]
                 ELSE IF n \in Declared /\ PosOf(n) <= Len(val.args)
                      THEN n \in DOMAIN full /\ full[n] = val.args[PosOf(n)]
                 ELSE IF n \in Declared /\ Sig[PosOf(n)].default # NoneOpt
                      THEN n \in DOMAIN full /\ full[n] = Sig[PosOf(n)].default[1]
                 ELSE n \notin DOMAIN full
        /\ (Sig[2].default = Some(IntVal(10)) /\ val.args = << IntVal(5) >>
              /\ DOMAIN val.kwargs = { })
             => val.bound[1] = [ a |-> IntVal(5), b |-> IntVal(10) ]
        /\ (Sig[2].default = Some(IntVal(10)) /\ val.args = << IntVal(5) >>
              /\ DOMAIN val.kwargs = { "b" } /\ val.kwargs["b"] = IntVal(20))
             => val.bound[1] = [ a |-> IntVal(5), b |-> IntVal(20) ]
        /\ (Sig[2].default = Some(IntVal(10)) /\ val.args = << >>
              /\ DOMAIN val.kwargs = { "a" } /\ val.kwargs["a"] = IntVal(5))
             => val.bound[1] = [ a |-> IntVal(5), b |-> IntVal(10) ]

\* a keyword clashes with a positional argument, and a default is filled in
C14_Witness ==
    /\ Validated
    /\ val.args = << IntVal(5) >>
    /\ DOMAIN val.kwargs = { "a" } /\ val.kwargs["a"] = IntVal(20)
    /\ val.bound = Some([ a |-> IntVal(20), b |-> IntVal(10) ])

(***************************************************************************)
(* C15: a construction with more positional arguments than the constructor *)
(* declares parameters fails with a binding error, and the original        *)
(* constructor is not invoked.                                             *)
(***************************************************************************)
C15_ExtraPositionalsRejected ==
    Validated /\ Len(val.args) > Len(Sig) =>
        /\ val.err = "TypeError"
        /\ val.init_calls = << >>
        /\ ~val.instance

(***************************************************************************)
(* C16: when the schema rejects the bound arguments the construction fails *)
(* with the schema's ValidationError, the original constructor is not      *)
(* invoked and the caller gets no instance; in every construction the      *)
(* schema runs before the original constructor.                            *)
(***************************************************************************)
C16_RejectBeforeInit ==
    Validated =>
        /\ val.trace \in { << "schema" >>, << "schema", "init" >> }
        /\ InitSchema(val.bound[1]).err # "" =>
             /\ val.err = "ValidationError"
             /\ val.init_calls = << >>
             /\ val.trace = << "schema" >>
             /\ ~val.instance

\* b = -1 is passed and the schema asks for b >= 0
C16_Witness ==
    /\ Validated
    /\ val.args = << IntVal(5) >>
    /\ DOMAIN val.kwargs = { "b" } /\ val.kwargs["b"] = IntVal(0 - 1)
    /\ val.err = "ValidationError"

(***************************************************************************)
(* C17: a class statement with a validation schema and no __init__ of its  *)
(* own raises ValueError when the class is defined, so the class never     *)
(* exists to be called; a class with no validation schema is defined with  *)
(* its own constructor, and a call reaches that constructor directly with  *)
(* the caller's arguments and no schema step.                              *)
(***************************************************************************)
C17_DefinitionTime ==
    val.phase # "none" =>
        /\ (val.dct.InitSchema = "BaseModel" /\ val.dct.init = NoneOpt)
             => val.phase = "rejected" /\ val.def_err = "ValueError"
        /\ val.dct.InitSchema = "absent"
             => /\ val.phase # "rejected" /\ val.def_err = ""
                /\ val.init = IF val.dct.init # NoneOpt THEN "original" ELSE "object"
                /\ val.phase = "constructed"
                     => /\ val.trace = << "init" >>
                        /\ val.init_calls = << Invocation(val.args, val.kwargs) >>
                        /\ val.bound = NoneOpt

C17_Witness ==
    val.phase = "rejected" /\ val.dct.InitSchema = "BaseModel" /\ val.dct.init = NoneOpt

(***************************************************************************)
(* C18: when the schema accepts, the original constructor is invoked once, *)
(* with no positional arguments and with exactly the schema's fields at    *)
(* their coerced values: no name outside the schema and no raw value.      *)
(***************************************************************************)
C18_ForwardsValidated ==
    Validated /\ InitSchema(val.bound[1]).err = "" =>
        /\ Len(val.init_calls) = 1
        /\ val.init_calls[1].args = << >>
        /\ DOMAIN val.init_calls[1].kwargs = SchemaFields
        /\ \A n \in SchemaFields :
             /\ val.init_calls[1].kwargs[n].type = "int"
             /\ val.init_calls[1].kwargs[n].v = val.bound[1][n].v
        /\ val.trace = << "schema", "init" >>

\* the caller passes a name that is no field and a value the schema coerces
C18_Witness ==
    /\ Validated
    /\ val.instance
    /\ "z" \in DOMAIN val.kwargs
    /\ \E n \in SchemaFields : val.bound[1][n].type = "str"
    /\ Len(val.init_calls) = 1

====
